---- MODULE Spec2Model ----
(***************************************************************************)
(* Model of lsst.dax.metaserv.schema_utils.parse_schema, the annotated-DDL *)
(* parser of dax_metaserv.                                                 *)
(*                                                                         *)
(* Text.  A line of the schema file is a sequence of lexemes; the          *)
(* concatenation of the lexemes is the text of the line.  Every lexeme is  *)
(* either one of the non-word lexemes listed in NonWord (one blank, the    *)
(* newline that ends the line, a punctuation character, the comment marker *)
(* "--", an annotation tag, a quoted literal) or a maximal run of word     *)
(* characters (\w+).  Lines are lexed maximally: no two word lexemes are   *)
(* adjacent, and the newline, when present, is the last lexeme.  On such   *)
(* lines each regular expression of the source is evaluated exactly by the *)
(* operator of the same name below.  Extracted texts (descriptions, units, *)
(* default values, index columns) are sequences of lexemes as well.        *)
(*                                                                         *)
(* Python values.  None is <<>> and a present value v is <<v>>; a key that *)
(* a dict does not hold is None in the record that models the dict.        *)
(***************************************************************************)
EXTENDS Integers, Sequences, FiniteSets, TLC

None == <<>>
Some(v) == <<v>>
IsSome(o) == o # <<>>
Get(o) == o[1]

MinOf(S) == CHOOSE x \in S : \A y \in S : x <= y
MaxOf(S) == CHOOSE x \in S : \A y \in S : y <= x

(***************************************************************************)
(* Lexemes.                                                                *)
(***************************************************************************)
NL == "\n"

NonWord ==
  { " ", NL, "--", "-", "(", ")", ",", ";", "=", ".", "'x'",
    "<descr>", "</descr>", "<unit>", "</unit>", "<ucd>", "</ucd>" }

\* \w+
IsWord(t) == t \notin NonWord

\* \s
IsSpace(t) == t \in {" ", NL}

\* . (anything but the newline)
IsDot(t) == t # NL

\* The index of the first lexeme at or after i that is not white space
\* (Len(s) + 1 when there is none): the end of a greedy \s* started at i.
SkipSpace(s, i) ==
  CHOOSE j \in i..(Len(s) + 1) :
    /\ \A k \in i..(j - 1) : IsSpace(s[k])
    /\ (j = Len(s) + 1 \/ ~IsSpace(s[j]))

\* str.rstrip(): trailing white space removed.
RECURSIVE rstrip(_)
rstrip(s) ==
  IF s # <<>> /\ IsSpace(s[Len(s)]) THEN rstrip(SubSeq(s, 1, Len(s) - 1)) ELSE s

\* str.rstrip(','): trailing commas removed.
RECURSIVE rstripComma(_)
rstripComma(s) ==
  IF s # <<>> /\ s[Len(s)] = "," THEN rstripComma(SubSeq(s, 1, Len(s) - 1)) ELSE s

\* str.split(): the maximal runs of lexemes that are not white space.
RECURSIVE split(_)
split(s) ==
  LET i == SkipSpace(s, 1)
  IN  IF i > Len(s) THEN <<>>
      ELSE LET ends == {j \in i..Len(s) : j = Len(s) \/ IsSpace(s[j + 1])}
               e == MinOf(ends)
           IN  <<SubSeq(s, i, e)>> \o split(SubSeq(s, e + 1, Len(s)))

\* str.split(','): the pieces between commas (always at least one piece).
RECURSIVE splitComma(_)
splitComma(s) ==
  LET commas == {j \in 1..Len(s) : s[j] = ","}
  IN  IF commas = {} THEN <<s>>
      ELSE LET c == MinOf(commas)
           IN  <<SubSeq(s, 1, c - 1)>> \o splitComma(SubSeq(s, c + 1, Len(s)))

\* sep.join(parts)
RECURSIVE join(_, _)
join(sep, parts) ==
  IF parts = <<>> THEN <<>>
  ELSE IF Len(parts) = 1 THEN parts[1]
  ELSE parts[1] \o sep \o join(sep, Tail(parts))

\* The lexemes strictly between an opening lexeme and a closing lexeme with
\* at least minLen lexemes between them, for the leftmost opening that has
\* such a closing and, for it, the rightmost closing (greedy = TRUE) or the
\* leftmost one (greedy = FALSE): re.search of  open(.+)close ,
\* open(.*)close  or  open(.+?)close .  None when nothing matches.
between(s, open, close, minLen, greedy) ==
  LET closes(i) == {j \in (i + 1 + minLen)..Len(s) :
                       s[j] = close /\ \A k \in (i + 1)..(j - 1) : IsDot(s[k])}
      opens == {i \in 1..Len(s) : s[i] = open /\ closes(i) # {}}
  IN  IF opens = {} THEN None
      ELSE LET i == MinOf(opens)
               j == IF greedy THEN MaxOf(closes(i)) ELSE MinOf(closes(i))
           IN  Some([start |-> i, group |-> SubSeq(s, i + 1, j - 1)])

\* The lexemes after an opening lexeme up to the end of the line, at least
\* one: re.search of  open(.+) .
after(s, open) ==
  LET opens == {i \in 1..(Len(s) - 1) : s[i] = open /\ IsDot(s[i + 1])}
  IN  IF opens = {} THEN None
      ELSE LET i == MinOf(opens)
               e == MaxOf({j \in (i + 1)..Len(s) :
                             \A k \in (i + 1)..j : IsDot(s[k])})
           IN  Some(SubSeq(s, i + 1, e))

(***************************************************************************)
(* The regular expressions of the module (schema_utils.py, lines 53-66).   *)
(* A search or match that fails is None; one that succeeds is Some of the  *)
(* group the caller reads.                                                 *)
(***************************************************************************)

\* _tableStart = re.compile(r'CREATE TABLE (\w+)'), used with search.
_tableStart(line) ==
  LET hits == {i \in 1..(Len(line) - 4) :
                 /\ line[i] = "CREATE" /\ line[i + 1] = " "
                 /\ line[i + 2] = "TABLE" /\ line[i + 3] = " "
                 /\ IsWord(line[i + 4])}
  IN  IF hits = {} THEN None ELSE Some(line[MinOf(hits) + 4])

\* _tableEnd = re.compile(r"\)"), used with match: the line starts with ")".
_tableEnd(line) == Len(line) >= 1 /\ line[1] = ")"

\* _engineLine = re.compile(r'\)\s*(ENGINE|TYPE)\s*=[\s]*(\w+)\s*;'), used
\* with match; group 2.
_engineLine(line) ==
  IF ~_tableEnd(line) THEN None
  ELSE LET a == SkipSpace(line, 2)
       IN  IF a > Len(line) \/ line[a] \notin {"ENGINE", "TYPE"} THEN None
           ELSE LET b == SkipSpace(line, a + 1)
                IN  IF b > Len(line) \/ line[b] # "=" THEN None
                    ELSE LET c == SkipSpace(line, b + 1)
                         IN  IF c > Len(line) \/ ~IsWord(line[c]) THEN None
                             ELSE LET d == SkipSpace(line, c + 1)
                                  IN  IF d > Len(line) \/ line[d] # ";"
                                      THEN None
                                      ELSE Some(line[c])

\* _columnLine = re.compile(r'\s*(\w+)\s+\w+'), used with match; group 1.
_columnLine(line) ==
  LET a == SkipSpace(line, 1)
  IN  IF a + 1 > Len(line) \/ ~IsWord(line[a]) \/ ~IsSpace(line[a + 1])
      THEN None
      ELSE LET b == SkipSpace(line, a + 1)
           IN  IF b > Len(line) \/ ~IsWord(line[b]) THEN None
               ELSE Some(line[a])

\* _idxCols = re.compile(r'\((.+?)\)'), used with search.
_idxCols(line) == between(line, "(", ")", 1, FALSE)

\* _unitLine = re.compile(r'<unit>(.+)</unit>'), used with search.
_unitLine(line) == between(line, "<unit>", "</unit>", 1, TRUE)

\* _ucdLine = re.compile(r'<ucd>(.+)</ucd>'), used with search.
_ucdLine(line) == between(line, "<ucd>", "</ucd>", 1, TRUE)

\* _descrLine = re.compile(r'<descr>(.+)</descr>'), used with search.
_descrLine(line) == between(line, "<descr>", "</descr>", 1, TRUE)

\* _descrStart = re.compile(r'<descr>(.+)'), used with search.
_descrStart(line) == after(line, "<descr>")

\* _descrMiddle = re.compile(r'--(.+)'), used with search.
_descrMiddle(line) == after(line, "--")

\* _descrEnd = re.compile(r'--(.*)</descr>'), used with search.
_descrEnd(line) == between(line, "--", "</descr>", 0, TRUE)

\* _commentLine = re.compile(r'\s*--'), used with match.
_commentLine(line) ==
  LET a == SkipSpace(line, 1) IN a <= Len(line) /\ line[a] = "--"

\* _defaultLine = re.compile(r'\s+DEFAULT\s+(.+?)[\s,]'), used with search
\* and only for whether it matches.
_defaultLine(line) ==
  \E d \in 2..Len(line) :
    /\ line[d] = "DEFAULT" /\ IsSpace(line[d - 1])
    /\ \E a \in (d + 1)..Len(line) :
         /\ \A k \in (d + 1)..a : IsSpace(line[k])
         /\ \E b \in (a + 1)..(Len(line) - 1) :
              /\ \A k \in (a + 1)..b : IsDot(line[k])
              /\ (IsSpace(line[b + 1]) \/ line[b + 1] = ",")

\* _size_parameter = re.compile(r'\((.+)\)'), used with search.
_size_parameter(datatype) == between(datatype, "(", ")", 1, TRUE)

\* MYSQL_TYPE_MAP
MYSQL_TYPE_MAP ==
  [ VARCHAR |-> "text", TIMESTAMP |-> "timestamp", BINARY |-> "binary",
    TINYINT |-> "short", BIGINT |-> "long", BIT |-> "boolean",
    FLOAT |-> "float", INT |-> "int", INTEGER |-> "int",
    DOUBLE |-> "double", CHAR |-> "text" ]

\* str.upper() left out: the type names are looked up as they are spelled.
upperAsSpelled(t) == t

\* str.upper() of a word.  The spellings with lower-case letters that the
\* inputs use are listed; every other word of the inputs is already in
\* upper case or is a name whose upper case is not a type name.
upper(t) ==
  CASE t \in {"int", "Int"} -> "INT"
    [] t = "integer" -> "INTEGER"
    [] t = "double" -> "DOUBLE"
    [] t = "float" -> "FLOAT"
    [] t = "char" -> "CHAR"
    [] t = "varchar" -> "VARCHAR"
    [] t = "bigint" -> "BIGINT"
    [] t = "tinyint" -> "TINYINT"
    [] t = "bit" -> "BIT"
    [] t = "binary" -> "BINARY"
    [] t = "timestamp" -> "TIMESTAMP"
    [] t = "decimal" -> "DECIMAL"
    [] OTHER -> t

\* The lexemes int() accepts, with their values.
IsNumber(t) == t \in {"0", "1", "2", "8", "64", "255"}

int(t) ==
  CASE t = "0" -> 0 [] t = "1" -> 1 [] t = "2" -> 2 [] t = "8" -> 8
    [] t = "64" -> 64 [] t = "255" -> 255

(***************************************************************************)
(* The helper functions of the module (schema_utils.py, lines 202-283).    *)
(***************************************************************************)
_isIndexDefinition(c) == c \in {"PRIMARY", "KEY", "INDEX", "UNIQUE"}

_isCommentLine(fragment) == _commentLine(fragment)

_isUnitLine(fragment) == IsSome(_unitLine(fragment))

_isUcdLine(fragment) == IsSome(_ucdLine(fragment))

\* _unitLine.search(fragment).group(1); the caller tests _isUnitLine first.
_retrUnit(fragment) == Get(_unitLine(fragment)).group

_retrUcd(fragment) == Get(_ucdLine(fragment)).group

_containsDescrTagStart(fragment) ==
  \E i \in 1..Len(fragment) : fragment[i] = "<descr>"

_containsDescrTagEnd(fragment) ==
  \E i \in 1..Len(fragment) : fragment[i] = "</descr>"

\* The three functions below call .group(1) on the result of search without
\* testing it: when the search fails they raise AttributeError, which is
\* None here (the caller turns it into the failure of the parse).
_retrDescr(fragment) ==
  LET m == _descrLine(fragment)
  IN  IF IsSome(m) THEN Some(Get(m).group) ELSE None

_retrDescrStart(fragment) == _descrStart(fragment)

_retrDescrEnd(fragment) ==
  LET m == _descrEnd(fragment)
  IN  IF IsSome(m) THEN Some(rstrip(Get(m).group)) ELSE None

\* found.group(1) if found else ""
_retrDescrMid(fragment) ==
  LET found == _descrMiddle(fragment)
  IN  IF IsSome(found) THEN Get(found) ELSE <<>>

\* 'NOT NULL' in fragment
_retrIsNotNull(fragment) ==
  \E i \in 1..(Len(fragment) - 2) :
    fragment[i] = "NOT" /\ fragment[i + 1] = " " /\ fragment[i + 2] = "NULL"

\* _retrType: the base type and the size of the second blank-separated item
\* of the line.  raises is "ValueError" when int() rejects the parenthesized
\* text.  A parenthesized text is never empty, so `if match.group(1)` always
\* takes the branch, for "0" too.
_retrTypeSize(group) ==
  IF group # <<>>
  THEN IF Len(group) = 1 /\ IsNumber(group[1])
       THEN [size |-> Some(int(group[1])), raises |-> None]
       ELSE [size |-> None, raises |-> Some("ValueError")]
  ELSE [size |-> None, raises |-> None]

_retrType(fragment) ==
  LET datatype == rstripComma(split(fragment)[2])
      match == _size_parameter(datatype)
  IN  IF IsSome(match)
      THEN LET r == _retrTypeSize(Get(match).group)
           IN  [datatype |-> SubSeq(datatype, 1, Get(match).start - 1),
                size |-> r.size, raises |-> r.raises]
      ELSE [datatype |-> datatype, size |-> None, raises |-> None]

\* _retrDefaultValue: the item after the first item that is DEFAULT, with
\* trailing commas stripped; None when the pattern does not match or when
\* DEFAULT is the last item.
_retrDefaultValue(fragment) ==
  IF ~_defaultLine(fragment) THEN None
  ELSE LET arr == split(fragment)
           ks == {k \in 1..Len(arr) : arr[k] = <<"DEFAULT">>}
       IN  IF ks = {} \/ MinOf(ks) = Len(arr) THEN None
           ELSE Some(rstripComma(arr[MinOf(ks) + 1]))

\* _retrIdxColumns; None stands for the AttributeError raised when the line
\* has no parenthesized text.
NotAsc(word) == word # <<"ASC">>

NotAscDesc(word) == word \notin {<<"ASC">>, <<"DESC">>}

IdxColumn(expr) == join(<<" ">>, SelectSeq(split(expr), NotAscDesc))

_retrIdxColumns(fragment) ==
  LET m == _idxCols(fragment)
  IN  IF ~IsSome(m) THEN None
      ELSE LET colExprs == splitComma(Get(m).group)
               columns == [k \in 1..Len(colExprs) |-> IdxColumn(colExprs[k])]
           IN  Some(join(<<",", " ">>, columns))

(***************************************************************************)
(* The state of one call of parse_schema, and of the files it is given.    *)
(***************************************************************************)
VARIABLES
  files,               \* path -> [isfile, text, eof]: whether the path names a
                       \* file, the lines of it read so far by some call, and
                       \* whether a call has reached its end
  path,                \* schema_file_path of the current call
  pc,                  \* "start", "loop", "returned", "raised" or "exited"
  pos,                 \* the number of lines the current call has read
  schema_file,         \* the handle: "unopened", "open" or "closed"
  table,               \* None, or Some name of the table dict it refers to
  column,              \* None, or Some [table, index] of the column dict
  column_description,  \* None or Some(1)
  schema,              \* table name -> table dict
  raised,              \* None, or Some class of the exception that ended it
  outcomes,            \* path -> None, or Some outcome of the first call
                       \* that finished on that path
  others               \* None, or Some frame (path, position and local
                       \* variables) of a second call that runs at the same
                       \* time and is not the one taking the present step

vars ==
  <<files, path, pc, pos, schema_file, table, column, column_description,
    schema, raised, outcomes, others>>

\* The number of paths a call can be given.
NumPaths == 2

Paths == 1..NumPaths

\* {} : a dict without keys.
EmptyTable ==
  [columns |-> None, indexes |-> None, description |-> None, engine |-> None]

\* The local variables of a call as one value.
Locals ==
  [table |-> table, column |-> column,
   column_description |-> column_description, schema |-> schema,
   raised |-> None]

Raise(s, exception) == [s EXCEPT !.raised = Some(exception)]

\* lines 118-119: the line opens a table.
IsTableStartNoCommentTest(line) == IsSome(_tableStart(line))

IsTableStart(line) == IsSome(_tableStart(line)) /\ ~_isCommentLine(line)

\* schema.setdefault(table_name, {})
setdefaultForgets(d, table_name) == (table_name :> EmptyTable)

setdefaultOverwrites(d, table_name) ==
  [n \in DOMAIN d \cup {table_name} |->
     IF n = table_name THEN EmptyTable ELSE d[n]]

setdefault(d, table_name) ==
  IF table_name \in DOMAIN d THEN d ELSE (table_name :> EmptyTable) @@ d

\* lines 120-122
TableStartLineKeepsColumn(s, line) ==
  LET table_name == Get(_tableStart(line))
  IN  [s EXCEPT !.schema = setdefault(s.schema, table_name),
                !.table = Some(table_name)]

TableStartLine(s, line) ==
  LET table_name == Get(_tableStart(line))
  IN  [s EXCEPT !.schema = setdefault(s.schema, table_name),
                !.table = Some(table_name),
                !.column = None]

\* lines 124-128; table["engine"] = ... raises TypeError when table is None.
TableEndLineEngineOnAll(s, line) ==
  LET m == _engineLine(line)
  IN  IF IsSome(m)
      THEN IF s.table = None THEN Raise(s, "TypeError")
           ELSE [s EXCEPT !.schema = [n \in DOMAIN s.schema |->
                                        [s.schema[n] EXCEPT
                                           !.engine = Some(<<Get(m)>>)]],
                          !.table = None]
      ELSE [s EXCEPT !.table = None]

TableEndLine(s, line) ==
  LET m == _engineLine(line)
  IN  IF IsSome(m)
      THEN IF s.table = None THEN Raise(s, "TypeError")
           ELSE [s EXCEPT !.schema[Get(s.table)].engine = Some(<<Get(m)>>),
                          !.table = None]
      ELSE [s EXCEPT !.table = None]

\* lines 134-138
IndexTypeAlwaysDash(first_token) == <<"-">>

IndexType(first_token) ==
  IF first_token = "PRIMARY" THEN <<"PRIMARY", " ", "KEY">>
  ELSE IF first_token = "UNIQUE" THEN <<"UNIQUE">>
  ELSE <<"-">>

\* d.setdefault(key, []).append(x) and
\* `if key not in d: d[key] = []` followed by d[key].append(x)
AppendToFront(list, x) ==
  IF IsSome(list) THEN Some(<<x>> \o Get(list)) ELSE Some(<<x>>)

AppendTo(list, x) == IF IsSome(list) THEN Some(Append(Get(list), x)) ELSE Some(<<x>>)

\* lines 134-143; _retrIdxColumns raises AttributeError (None.group).
IndexLineBecomesCurrent(s, line, first_token) ==
  LET cols == _retrIdxColumns(line)
  IN  IF ~IsSome(cols) THEN Raise(s, "AttributeError")
      ELSE LET idx_info == [type |-> IndexType(first_token), columns |-> Get(cols)]
           IN  [s EXCEPT !.schema[Get(s.table)].indexes = AppendTo(@, idx_info),
                         !.column = None]

IndexLine(s, line, first_token) ==
  LET cols == _retrIdxColumns(line)
  IN  IF ~IsSome(cols) THEN Raise(s, "AttributeError")
      ELSE LET idx_info == [type |-> IndexType(first_token), columns |-> Get(cols)]
           IN  [s EXCEPT !.schema[Get(s.table)].indexes = AppendTo(@, idx_info)]

\* line 146: MYSQL_TYPE_MAP[datatype.upper()], None for the KeyError
LookupTypeOrPassThrough(datatype) ==
  IF Len(datatype) = 1 /\ upper(datatype[1]) \in DOMAIN MYSQL_TYPE_MAP
  THEN Some(MYSQL_TYPE_MAP[upper(datatype[1])])
  ELSE Some("unknown")

LookupType(datatype) ==
  IF Len(datatype) = 1 /\ upper(datatype[1]) \in DOMAIN MYSQL_TYPE_MAP
  THEN Some(MYSQL_TYPE_MAP[upper(datatype[1])])
  ELSE None

\* lines 145-160
ColumnLineKeepsBooleanSize(s, line, first_token) ==
  LET r == _retrType(line)
      datatype == LookupType(r.datatype)
  IN  IF IsSome(r.raises) THEN Raise(s, Get(r.raises))
      ELSE IF ~IsSome(datatype) THEN Raise(s, "KeyError")
      ELSE LET col == [name |-> first_token,
                       datatype |-> Get(datatype),
                       arraysize |-> r.size,
                       nullable |-> ~_retrIsNotNull(line),
                       defaultValue |-> _retrDefaultValue(line),
                       description |-> None, unit |-> None, ucd |-> None]
               t == Get(s.table)
               cols == AppendTo(s.schema[t].columns, col)
           IN  [s EXCEPT !.schema[t].columns = cols,
                         !.column = Some([table |-> t, index |-> Len(Get(cols))])]

ColumnLine(s, line, first_token) ==
  LET r == _retrType(line)
      datatype == LookupType(r.datatype)
  IN  IF IsSome(r.raises) THEN Raise(s, Get(r.raises))
      ELSE IF ~IsSome(datatype) THEN Raise(s, "KeyError")
      ELSE LET col == [name |-> first_token,
                       datatype |-> Get(datatype),
                       arraysize |-> IF Get(datatype) = "boolean" THEN None
                                     ELSE r.size,
                       nullable |-> ~_retrIsNotNull(line),
                       defaultValue |-> _retrDefaultValue(line),
                       description |-> None, unit |-> None, ucd |-> None]
               t == Get(s.table)
               cols == AppendTo(s.schema[t].columns, col)
           IN  [s EXCEPT !.schema[t].columns = cols,
                         !.column = Some([table |-> t, index |-> Len(Get(cols))])]

\* lines 163-174: a comment line while column is None.
TableComment(s, line) ==
  LET t == Get(s.table)
      descr == s.schema[t].description
      new == IF _containsDescrTagStart(line)
             THEN IF _containsDescrTagEnd(line) THEN _retrDescr(line)
                  ELSE _retrDescrStart(line)
             ELSE IF _containsDescrTagEnd(line)
                  THEN Some(Get(descr) \o Get(_retrDescrEnd(line)))
                  ELSE Some(Get(descr) \o _retrDescrMid(line))
  IN  IF _containsDescrTagStart(line) \/ IsSome(descr)
      THEN IF IsSome(new) THEN [s EXCEPT !.schema[t].description = new]
           ELSE Raise(s, "AttributeError")
      ELSE s

\* lines 177-188: the description part of a comment line of a column.
\* column["description"] += ... raises KeyError when the column has none.
ColumnDescr(s, line) ==
  LET t == Get(s.column).table
      k == Get(s.column).index
      descr == Get(s.schema[t].columns)[k].description
      set(d) == [s EXCEPT !.schema[t].columns =
                   Some([Get(@) EXCEPT ![k].description = d])]
  IN  IF _containsDescrTagStart(line)
      THEN IF _containsDescrTagEnd(line)
           THEN IF IsSome(_retrDescr(line)) THEN set(_retrDescr(line))
                ELSE Raise(s, "AttributeError")
           ELSE IF IsSome(_retrDescrStart(line))
                THEN [set(_retrDescrStart(line)) EXCEPT
                        !.column_description = Some(1)]
                ELSE Raise(s, "AttributeError")
      ELSE IF IsSome(s.column_description)
      THEN IF ~IsSome(descr) THEN Raise(s, "KeyError")
           ELSE IF _containsDescrTagEnd(line)
                THEN [set(Some(Get(descr) \o Get(_retrDescrEnd(line)))) EXCEPT
                        !.column_description = None]
                ELSE set(Some(Get(descr) \o _retrDescrMid(line)))
      ELSE s

\* lines 190-196: the unit and the ucd of a comment line of a column.
ColumnUnitUcd(s, line) ==
  LET t == Get(s.column).table
      k == Get(s.column).index
      c == Get(s.schema[t].columns)[k]
      c1 == IF _isUnitLine(line) THEN [c EXCEPT !.unit = Some(_retrUnit(line))]
            ELSE c
      c2 == IF _isUcdLine(line) THEN [c1 EXCEPT !.ucd = Some(_retrUcd(line))]
            ELSE c1
  IN  [s EXCEPT !.schema[t].columns = Some([Get(@) EXCEPT ![k] = c2])]

\* lines 175-196
ColumnComment(s, line) ==
  LET s1 == ColumnDescr(s, line)
  IN  IF IsSome(s1.raised) THEN s1 ELSE ColumnUnitUcd(s1, line)

\* lines 118-196: the body of the loop for one line.
ProcessLineForgetsColumn(s, line) ==
  IF IsTableStart(line) THEN TableStartLine(s, line)
  ELSE IF _tableEnd(line) THEN TableEndLine(s, line)
  ELSE IF IsSome(s.table)
  THEN LET m == _columnLine(line)
       IN  IF IsSome(m)
           THEN IF _isIndexDefinition(Get(m)) THEN IndexLine(s, line, Get(m))
                ELSE ColumnLine(s, line, Get(m))
           ELSE IF _isCommentLine(line)
           THEN IF s.column = None THEN TableComment(s, line)
                ELSE ColumnComment(s, line)
           ELSE [s EXCEPT !.column = None]
  ELSE s

ProcessLine(s, line) ==
  IF IsTableStart(line) THEN TableStartLine(s, line)
  ELSE IF _tableEnd(line) THEN TableEndLine(s, line)
  ELSE IF IsSome(s.table)
  THEN LET m == _columnLine(line)
       IN  IF IsSome(m)
           THEN IF _isIndexDefinition(Get(m)) THEN IndexLine(s, line, Get(m))
                ELSE ColumnLine(s, line, Get(m))
           ELSE IF _isCommentLine(line)
           THEN IF s.column = None THEN TableComment(s, line)
                ELSE ColumnComment(s, line)
           ELSE s
  ELSE s

(***************************************************************************)
(* Lines of schema files: those of tests/test_schema_to_meta.py and        *)
(* variations of them.                                                     *)
(***************************************************************************)
\* 'CREATE TABLE t1\n'
CreateT1 ==
  <<"CREATE", " ", "TABLE", " ", "t1", NL>>

\* 'CREATE TABLE t2 (\n'
CreateT2 ==
  <<"CREATE", " ", "TABLE", " ", "t2", " ", "(", NL>>

\* '--CREATE TABLE tDummy1\n'
CommentedCreate ==
  <<"--", "CREATE", " ", "TABLE", " ", "tDummy1", NL>>

\* '-- id int,\n'
CommentedColumn ==
  <<"--", " ", "id", " ", "int", ",", NL>>

\* '--) ENGINE=MyISAM;\n'
CommentedEngine ==
  <<"--", ")", " ", "ENGINE", "=", "MyISAM", ";", NL>>

\* '(\n'
OpenParen ==
  <<"(", NL>>

\* '\n'
Blank ==
  <<NL>>

\* ' id int,\n'
ColId ==
  <<" ", "id", " ", "int", ",", NL>>

\* ' ra double DEFAULT 1,\n'
ColRa ==
  <<" ", "ra", " ", "double", " ", "DEFAULT", " ", "1", ",", NL>>

\* " s char DEFAULT 'x',\n"
ColS ==
  <<" ", "s", " ", "char", " ", "DEFAULT", " ", "'x'", ",", NL>>

\* ' v varchar(255),\n'
ColV ==
  <<" ", "v", " ", "varchar", "(", "255", ")", ",", NL>>

\* ' f1 FLOAT(0),\n'
ColF1 ==
  <<" ", "f1", " ", "FLOAT", "(", "0", ")", ",", NL>>

\* ' f2 FLOAT\n'
ColF2 ==
  <<" ", "f2", " ", "FLOAT", NL>>

\* ' b BIT(8),\n'
ColBit ==
  <<" ", "b", " ", "BIT", "(", "8", ")", ",", NL>>

\* ' d decimal,\n'
ColDecimal ==
  <<" ", "d", " ", "decimal", ",", NL>>

\* ' e FLOAT(8,2),\n'
ColBadSize ==
  <<" ", "e", " ", "FLOAT", "(", "8", ",", "2", ")", ",", NL>>

\* ' PRIMARY KEY pk_t1_id (id),\n'
IdxPrimary ==
  <<" ", "PRIMARY", " ", "KEY", " ", "pk_t1_id", " ", "(", "id", ")", ",", NL>>

\* ' INDEX idx_t1_s (s)\n'
IdxIndex ==
  <<" ", "INDEX", " ", "idx_t1_s", " ", "(", "s", ")", NL>>

\* ' UNIQUE UQ_x(xx DESC, yy)\n'
IdxUnique ==
  <<" ", "UNIQUE", " ", "UQ_x", "(", "xx", " ", "DESC", ",", " ", "yy", ")", NL>>

\* ' PRIMARY KEY\n'
IdxNoColumns ==
  <<" ", "PRIMARY", " ", "KEY", NL>>

\* ') ENGINE=MyISAM;\n'
EndEngine ==
  <<")", " ", "ENGINE", "=", "MyISAM", ";", NL>>

\* ');\n'
EndPlain ==
  <<")", ";", NL>>

\* ' ) ENGINE=MyISAM;\n'
EndIndented ==
  <<" ", ")", " ", "ENGINE", "=", "MyISAM", ";", NL>>

\* ' -- <descr>the t1.id</descr>\n'
DescrFull ==
  <<" ", "--", " ", "<descr>", "the", " ", "t1", ".", "id", "</descr>", NL>>

\* ' -- <descr>This is\n'
DescrOpen ==
  <<" ", "--", " ", "<descr>", "This", " ", "is", NL>>

\* ' -- long\n'
DescrMid ==
  <<" ", "--", " ", "long", NL>>

\* ' -- t2 table.</descr> \n'
DescrClose ==
  <<" ", "--", " ", "t2", " ", "table", ".", "</descr>", " ", NL>>

\* ' -- </descr>\n'
DescrCloseBare ==
  <<" ", "--", " ", "</descr>", NL>>

\* ' -- <descr></descr>\n'
DescrEmpty ==
  <<" ", "--", " ", "<descr>", "</descr>", NL>>

\* ' -- <descr>\n'
DescrOpenBare ==
  <<" ", "--", " ", "<descr>", NL>>

\* ' -- <ucd>pos.eq.ra</ucd>\n'
Ucd ==
  <<" ", "--", " ", "<ucd>", "pos", ".", "eq", ".", "ra", "</ucd>", NL>>

\* ' -- <unit>deg</unit>\n'
Unit ==
  <<" ", "--", " ", "<unit>", "deg", "</unit>", NL>>

\* ' -- <unit></unit>\n'
UnitEmpty ==
  <<" ", "--", " ", "<unit>", "</unit>", NL>>

\* ' -- <ucd></ucd>\n'
UcdEmpty ==
  <<" ", "--", " ", "<ucd>", "</ucd>", NL>>

\* ' -- in <unit>deg</unit>\n'
DescrMidUnit ==
  <<" ", "--", " ", "in", " ", "<unit>", "deg", "</unit>", NL>>

\* ' ra double DEFAULT 1'
ColRaEof ==
  <<" ", "ra", " ", "double", " ", "DEFAULT", " ", "1">>

\* ' n int NOT NULL DEFAULT 0,\n'
ColNotNull ==
  <<" ", "n", " ", "int", " ", "NOT", " ", "NULL", " ", "DEFAULT", " ", "0", ",", NL>>

\* ' x int DEFAULT\n'
ColDefaultLast ==
  <<" ", "x", " ", "int", " ", "DEFAULT", NL>>

\* ' ts TIMESTAMP,\n'
ColTs ==
  <<" ", "ts", " ", "TIMESTAMP", ",", NL>>

\* ' bn BINARY(64),\n'
ColBn ==
  <<" ", "bn", " ", "BINARY", "(", "64", ")", ",", NL>>

\* ' ti tinyint(1),\n'
ColTi ==
  <<" ", "ti", " ", "tinyint", "(", "1", ")", ",", NL>>

\* ' bi BIGINT,\n'
ColBi ==
  <<" ", "bi", " ", "BIGINT", ",", NL>>

\* ' i2 INTEGER(8)\n'
ColI2 ==
  <<" ", "i2", " ", "INTEGER", "(", "8", ")", NL>>

\* ' c1 CHAR(2),\n'
ColC1 ==
  <<" ", "c1", " ", "CHAR", "(", "2", ")", ",", NL>>

\* ' vc VARCHAR(64),\n'
ColVc ==
  <<" ", "vc", " ", "VARCHAR", "(", "64", ")", ",", NL>>

\* ' fl float,\n'
ColFl ==
  <<" ", "fl", " ", "float", ",", NL>>

\* ' db DOUBLE,\n'
ColDb ==
  <<" ", "db", " ", "DOUBLE", ",", NL>>

\* ' bt bit,\n'
ColBt ==
  <<" ", "bt", " ", "bit", ",", NL>>

\* ' i3 Int,\n'
ColI3 ==
  <<" ", "i3", " ", "Int", ",", NL>>

\* ' KEY k_ra (ra ASC, decl),\n'
IdxKey ==
  <<" ", "KEY", " ", "k_ra", " ", "(", "ra", " ", "ASC", ",", " ", "decl", ")", ",", NL>>

\* ' INDEX i2 ( a ASC ,b )\n'
IdxSpaced ==
  <<" ", "INDEX", " ", "i2", " ", "(", " ", "a", " ", "ASC", " ", ",", "b", " ", ")", NL>>

\* ') TYPE = InnoDB ;\n'
EndType ==
  <<")", " ", "TYPE", " ", "=", " ", "InnoDB", " ", ";", NL>>

\* ' foo\n'
LoneWord ==
  <<" ", "foo", NL>>


(***************************************************************************)
(* parse_schema as a state machine.  The lines of a file are revealed as   *)
(* the first call that gets that far reads them; a later call on the same  *)
(* path reads the same lines again.                                        *)
(***************************************************************************)

\* The number of lines the files of a behaviour hold together, for Spec and
\* SpecColumns, for SpecDescr and for SpecReparse.
MaxLines == 4

MaxDescrLines == 5

MaxReparseLines == 4

text == files[path].text

\* lines 112-115: the local variables at the start of the loop.
InitialLocalsKeepingFlag ==
  [table |-> None, column |-> None, column_description |-> column_description,
   schema |-> <<>>, raised |-> None]

InitialLocals ==
  [table |-> None, column |-> None, column_description |-> None,
   schema |-> <<>>, raised |-> None]

\* line 106: not os.path.isfile(schema_file_path)
FileMissingNever(p) == FALSE

FileMissing(p) == ~files[p].isfile

\* lines 106-108: the path names no file; sys.exit(1) raises SystemExit
\* with exit status 1, before the file is opened.
Exit ==
  /\ pc = "start"
  /\ FileMissing(path)
  /\ pc' = "exited"
  /\ raised' = Some("SystemExit")
  /\ UNCHANGED <<files, path, pos, schema_file, table, column,
                 column_description, schema, outcomes, others>>

\* lines 110-115
Open ==
  /\ pc = "start"
  /\ ~FileMissing(path)
  /\ schema_file' = "open"
  /\ table' = InitialLocals.table
  /\ column' = InitialLocals.column
  /\ column_description' = InitialLocals.column_description
  /\ schema' = InitialLocals.schema
  /\ pc' = "loop"
  /\ UNCHANGED <<files, path, pos, raised, outcomes, others>>

\* The number of lines read so far of the files up to path p.
RECURSIVE LinesRevealed(_)
LinesRevealed(p) ==
  IF p = 0 THEN 0 ELSE Len(files[p].text) + LinesRevealed(p - 1)

\* A line without the newline at its end: only the last line of a file can
\* be one.
Unterminated(line) == line = <<>> \/ line[Len(line)] # NL

\* The lines the file can hold at position pos + 1: the line a call has
\* read there before, or else any line of the vocabulary, as long as the
\* files together hold fewer than maxLines lines.
NextLines(vocabulary, maxLines) ==
  IF pos < Len(text) THEN {text[pos + 1]}
  ELSE IF \/ files[path].eof
          \/ LinesRevealed(NumPaths) >= maxLines
          \/ (text # <<>> /\ Unterminated(text[Len(text)]))
       THEN {}
  ELSE vocabulary

\* lines 117-196: one iteration of `for line in schema_file`.  An exception
\* ends the call where it is raised: the handle stays as it is (line 198 is
\* not reached).
ReadLine(vocabulary, maxLines) ==
  /\ pc = "loop"
  /\ \E line \in NextLines(vocabulary, maxLines) :
       LET s == ProcessLine(Locals, line)
       IN  /\ files' = [files EXCEPT ![path].text =
                          IF pos < Len(text) THEN text ELSE Append(text, line)]
           /\ pos' = pos + 1
           /\ IF IsSome(s.raised)
              THEN /\ pc' = "raised"
                   /\ raised' = s.raised
                   /\ UNCHANGED <<table, column, column_description, schema>>
              ELSE /\ pc' = "loop"
                   /\ table' = s.table
                   /\ column' = s.column
                   /\ column_description' = s.column_description
                   /\ schema' = s.schema
                   /\ UNCHANGED raised
  /\ UNCHANGED <<path, schema_file, outcomes, others>>

\* lines 198-199: the end of the file; close and return schema.
ReturnWithoutOpenTable ==
  /\ pc = "loop"
  /\ pos = Len(text)
  /\ files' = [files EXCEPT ![path].eof = TRUE]
  /\ schema_file' = "closed"
  /\ pc' = "returned"
  /\ schema' = [n \in DOMAIN schema \ {Get(t) : t \in {table} \ {None}} |->
                  schema[n]]
  /\ UNCHANGED <<path, pos, table, column, column_description,
                 raised, outcomes, others>>

ReturnSpins ==
  /\ pc = "loop"
  /\ pos = Len(text)
  /\ files' = [files EXCEPT ![path].eof = TRUE]
  /\ UNCHANGED <<path, pc, pos, schema_file, table, column,
                 column_description, schema, raised, outcomes, others>>

Return ==
  /\ pc = "loop"
  /\ pos = Len(text)
  /\ files' = [files EXCEPT ![path].eof = TRUE]
  /\ schema_file' = "closed"
  /\ pc' = "returned"
  /\ UNCHANGED <<path, pos, table, column, column_description, schema,
                 raised, outcomes, others>>

\* What the caller of a finished call gets: the mapping, or the exception;
\* with it, the lines the call read.
Outcome ==
  [kind |-> pc,
   value |-> IF pc = "returned" THEN schema ELSE <<>>,
   raised |-> raised,
   lines |-> SubSeq(text, 1, pos)]

Finished == pc \in {"returned", "raised", "exited"}

\* The caller calls parse_schema again, on any path.  The outcome of the
\* first call on each path is recorded; the local variables of the
\* finished call are dead.
NextCall ==
  /\ Finished
  /\ outcomes' = IF IsSome(outcomes[path]) THEN outcomes
                 ELSE [outcomes EXCEPT ![path] = Some(Outcome)]
  /\ \E p \in Paths : path' = p
  /\ pc' = "start"
  /\ pos' = 0
  /\ schema_file' = "unopened"
  /\ raised' = None
  /\ UNCHANGED <<files, table, column, column_description, schema, others>>

InitCall ==
  /\ pc = "start"
  /\ pos = 0
  /\ schema_file = "unopened"
  /\ table = None
  /\ column = None
  /\ column_description = None
  /\ schema = <<>>
  /\ raised = None
  /\ outcomes = [p \in Paths |-> None]
  /\ others = None

\* One call, on path 1.
Init ==
  /\ \E b \in BOOLEAN :
       files = [p \in Paths |-> [isfile |-> (b \/ p # 1), text |-> <<>>,
                                 eof |-> FALSE]]
  /\ path = 1
  /\ InitCall

(***************************************************************************)
(* Spec: table boundaries and commented-out lines.                         *)
(***************************************************************************)
BlockLines ==
  { CreateT1, CreateT2, CommentedCreate, CommentedColumn, CommentedEngine,
    ColId, EndEngine, EndPlain, Blank }

Next ==
  \/ Exit
  \/ Open
  \/ ReadLine(BlockLines, MaxLines)
  \/ Return

Spec == Init /\ [][Next]_vars

(***************************************************************************)
(* SpecColumns: column and index lines.                                    *)
(***************************************************************************)
ColumnLines ==
  { CreateT1, CreateT2, ColId, ColV, ColF1, ColF2, ColBit, ColDecimal,
    ColBadSize, IdxPrimary, IdxIndex, EndPlain, DescrFull }

NextColumns ==
  \/ Exit
  \/ Open
  \/ ReadLine(ColumnLines, MaxLines)
  \/ Return

SpecColumns == Init /\ [][NextColumns]_vars

(***************************************************************************)
(* SpecDescr: comment lines with description tags.                         *)
(***************************************************************************)
DescrLines ==
  { CreateT1, ColId, ColDecimal, DescrFull, DescrOpen, DescrMid, DescrClose,
    DescrEmpty, DescrOpenBare }

NextDescr ==
  \/ Exit
  \/ Open
  \/ ReadLine(DescrLines, MaxDescrLines)
  \/ Return

SpecDescr == Init /\ [][NextDescr]_vars

(***************************************************************************)
(* SpecReparse: several calls, one after the other, on any of the paths.   *)
(***************************************************************************)
ReparseLines == { CreateT1, ColId, DescrMid, DescrOpen }

InitReparse ==
  /\ \E exists \in [Paths -> BOOLEAN] :
       files = [p \in Paths |-> [isfile |-> exists[p], text |-> <<>>,
                                 eof |-> FALSE]]
  /\ path \in Paths
  /\ InitCall

NextReparse ==
  \/ Exit
  \/ Open
  \/ ReadLine(ReparseLines, MaxReparseLines)
  \/ Return
  \/ NextCall

SpecReparse == InitReparse /\ [][NextReparse]_vars

(***************************************************************************)
(* SpecTypes: the attributes of a column, from the column line alone.      *)
(***************************************************************************)
\* The number of lines of the file, for SpecTypes.
MaxTypeLines == 3

TypeLines ==
  { CreateT1, ColId, ColRa, ColS, ColRaEof, ColNotNull, ColDefaultLast,
    ColV, ColF1, ColF2, ColBit, ColDecimal, ColTs, ColBn, ColTi, ColBi,
    ColI2, ColC1, ColVc, ColFl, ColDb, ColBt, ColI3 }

NextTypes ==
  \/ Exit
  \/ Open
  \/ ReadLine(TypeLines, MaxTypeLines)
  \/ Return

SpecTypes == Init /\ [][NextTypes]_vars

(***************************************************************************)
(* SpecIndexes: index lines.                                               *)
(***************************************************************************)
\* The number of lines of the file, for SpecIndexes.
MaxIndexLines == 4

IndexLines ==
  { CreateT1, CreateT2, ColId, IdxPrimary, IdxIndex, IdxUnique, IdxKey,
    IdxSpaced, IdxNoColumns, EndPlain, DescrFull }

NextIndexes ==
  \/ Exit
  \/ Open
  \/ ReadLine(IndexLines, MaxIndexLines)
  \/ Return

SpecIndexes == Init /\ [][NextIndexes]_vars

(***************************************************************************)
(* SpecTables: closing lines and lines of no recognized shape.             *)
(***************************************************************************)
\* The number of lines of the file, for SpecTables.
MaxTableLines == 4

TableLines ==
  { CreateT1, CreateT2, ColId, IdxPrimary, EndEngine, EndType, EndPlain,
    EndIndented, Blank, OpenParen, LoneWord, DescrOpen, DescrMid }

NextTables ==
  \/ Exit
  \/ Open
  \/ ReadLine(TableLines, MaxTableLines)
  \/ Return

SpecTables == Init /\ [][NextTables]_vars

(***************************************************************************)
(* SpecConcurrent: two calls at the same time, one on each path, their     *)
(* steps interleaved in any order.  Every name that parse_schema assigns   *)
(* is a local variable of the call (lines 110-115); the patterns and       *)
(* MYSQL_TYPE_MAP of the module are only read.                             *)
(***************************************************************************)
\* The number of lines the two files hold together, for SpecConcurrent.
MaxConcurrentLines == 4

ConcurrentLines == { CreateT1, ColId, DescrOpen, DescrMid }

\* The frame of the call that takes the present step.
Frame ==
  [path |-> path, pc |-> pc, pos |-> pos, schema_file |-> schema_file,
   table |-> table, column |-> column,
   column_description |-> column_description, schema |-> schema,
   raised |-> raised]

\* The frame of a call that has not started.
NewFrame(p) ==
  [path |-> p, pc |-> "start", pos |-> 0, schema_file |-> "unopened",
   table |-> None, column |-> None, column_description |-> None,
   schema |-> <<>>, raised |-> None]

\* The values a call finds in its variables when it goes on after steps of
\* the other call: those of its own frame (lines 112-115: the variables
\* are local to the call).
ResumedWithModuleLevelFlag(f) ==
  [f EXCEPT !.column_description = column_description]

Resumed(f) == f

\* The scheduler lets the other call take the next steps.
Switch ==
  /\ IsSome(others)
  /\ others' = Some(Frame)
  /\ LET f == Resumed(Get(others))
     IN  /\ path' = f.path
         /\ pc' = f.pc
         /\ pos' = f.pos
         /\ schema_file' = f.schema_file
         /\ table' = f.table
         /\ column' = f.column
         /\ column_description' = f.column_description
         /\ schema' = f.schema
         /\ raised' = f.raised
  /\ UNCHANGED <<files, outcomes>>

InitConcurrent ==
  /\ \E exists \in [Paths -> BOOLEAN] :
       files = [p \in Paths |-> [isfile |-> exists[p], text |-> <<>>,
                                 eof |-> FALSE]]
  /\ path = 1
  /\ pc = "start"
  /\ pos = 0
  /\ schema_file = "unopened"
  /\ table = None
  /\ column = None
  /\ column_description = None
  /\ schema = <<>>
  /\ raised = None
  /\ outcomes = [p \in Paths |-> None]
  /\ others = Some(NewFrame(2))

NextConcurrent ==
  \/ Exit
  \/ Open
  \/ ReadLine(ConcurrentLines, MaxConcurrentLines)
  \/ Return
  \/ Switch

SpecConcurrent == InitConcurrent /\ [][NextConcurrent]_vars

(***************************************************************************)
(* SpecDuplicates: several blocks, with the same name or not.              *)
(***************************************************************************)
\* The number of lines of the file, for SpecDuplicates.
MaxDuplicateLines == 5

DuplicateLines == { CreateT1, CreateT2, ColId, ColV, IdxPrimary, EndPlain }

NextDuplicates ==
  \/ Exit
  \/ Open
  \/ ReadLine(DuplicateLines, MaxDuplicateLines)
  \/ Return

SpecDuplicates == Init /\ [][NextDuplicates]_vars

(***************************************************************************)
(* SpecTags: comment lines with description, unit and ucd tags.            *)
(***************************************************************************)
\* The number of lines of the file, for SpecTags.
MaxTagLines == 4

TagLines ==
  { CreateT1, ColId, DescrFull, DescrOpen, DescrMid, DescrMidUnit,
    DescrClose, Unit, Ucd }

NextTags ==
  \/ Exit
  \/ Open
  \/ ReadLine(TagLines, MaxTagLines)
  \/ Return

SpecTags == Init /\ [][NextTags]_vars

(***************************************************************************)
(* SpecCapture: descriptions that are opened, closed or left open, and     *)
(* the comment lines after them.                                           *)
(***************************************************************************)
\* The number of lines of the file, for SpecCapture.
MaxCaptureLines == 5

CaptureLines == { CreateT1, ColId, DescrFull, DescrOpen, DescrMid, Unit }

NextCapture ==
  \/ Exit
  \/ Open
  \/ ReadLine(CaptureLines, MaxCaptureLines)
  \/ Return

SpecCapture == Init /\ [][NextCapture]_vars

(***************************************************************************)
(* SpecPass: the pass over the lines of a file, to its end.  The call is   *)
(* one sequential run of the interpreter: a statement that can be executed *)
(* is executed, and iterating over the lines of a regular file returns    *)
(* each line or ends the loop.                                             *)
(***************************************************************************)
\* The number of lines of the file, for SpecPass.
MaxPassLines == 4

PassLines ==
  { CreateT1, ColId, ColDecimal, IdxPrimary, EndEngine, DescrFull, Blank }

NextPass ==
  \/ Exit
  \/ Open
  \/ ReadLine(PassLines, MaxPassLines)
  \/ Return

SpecPass == Init /\ [][NextPass]_vars /\ WF_vars(NextPass)

(***************************************************************************)
(* Properties.                                                             *)
(***************************************************************************)

\* A step of the loop: the current call reads one line.
ReadsLine == pc = "loop" /\ pos' = pos + 1

\* The line that a step of the loop reads.
LineRead == files'[path].text[pos']

\* The table names on the lines read so far that open a table according to
\* the text of the line alone: a line that holds CREATE TABLE <name> and
\* does not start with the comment marker.
OpenedNames ==
  {Get(_tableStart(text[k])) :
     k \in {j \in 1..pos : IsSome(_tableStart(text[j]))
                           /\ ~_commentLine(text[j])}}

IsPrefix(a, b) == Len(a) <= Len(b) /\ SubSeq(b, 1, Len(a)) = a

\* The elements of a set of numbers in increasing order.
RECURSIVE Sorted(_)
Sorted(S) == IF S = {} THEN <<>> ELSE <<MinOf(S)>> \o Sorted(S \ {MinOf(S)})

(***************************************************************************)
(* The structure of the text read so far, from the lines alone.            *)
(***************************************************************************)
\* Line k opens a table: it holds CREATE TABLE <name> and is no comment line.
StartsTable(k) == IsSome(_tableStart(text[k])) /\ ~_commentLine(text[k])

\* Line k closes the table: it starts with ")" (and does not open a table).
EndsTable(k) == ~StartsTable(k) /\ _tableEnd(text[k])

\* The table that is open when line k is read: the one of the last line
\* before k that opens or closes a table.
TableAt(k) ==
  LET B == {j \in 1..(k - 1) : StartsTable(j) \/ EndsTable(j)}
  IN  IF B = {} THEN None
      ELSE IF StartsTable(MaxOf(B)) THEN _tableStart(text[MaxOf(B)])
      ELSE None

\* Line k is a definition line of an open table: <identifier> <word> ...
DefinitionLine(k) ==
  /\ ~StartsTable(k) /\ ~EndsTable(k)
  /\ IsSome(TableAt(k))
  /\ IsSome(_columnLine(text[k]))

IndexDefinitionLine(k) ==
  DefinitionLine(k) /\ Get(_columnLine(text[k])) \in {"PRIMARY", "KEY", "INDEX", "UNIQUE"}

ColumnDefinitionLine(k) == DefinitionLine(k) /\ ~IndexDefinitionLine(k)

\* The column-definition lines and the index-definition lines of table n
\* read so far, in source order.
ColumnLinesOf(n) ==
  Sorted({k \in 1..pos : ColumnDefinitionLine(k) /\ TableAt(k) = Some(n)})

IndexLinesOf(n) ==
  Sorted({k \in 1..pos : IndexDefinitionLine(k) /\ TableAt(k) = Some(n)})

\* The list under a key of a table dict; the empty list for an absent key.
ListOf(o) == IF IsSome(o) THEN Get(o) ELSE <<>>

\* C1: a line whose first characters after white space are "--" never opens
\* a table, never closes one and never adds an entry to the mapping, in any
\* state of the parser: reading such a line leaves the set of table names
\* of the mapping and the current table as they were, so that every entry of
\* the mapping comes from a line that is not a comment line.
C1_CommentLineNeverOpensOrCloses ==
  [][ReadsLine /\ _commentLine(LineRead)
       => /\ DOMAIN schema' = DOMAIN schema
          /\ table' = table
          /\ \A n \in DOMAIN schema' :
               \E k \in 1..pos' : /\ ~_commentLine(text'[k])
                                  /\ _tableStart(text'[k]) = Some(n)]_vars

\* A commented-out CREATE TABLE line and a commented-out closing line were
\* read inside table t1: t1 is still open and is the only entry.
C1_Witness ==
  /\ pc = "loop" /\ pos = 3
  /\ text = <<CreateT1, CommentedCreate, CommentedEngine>>
  /\ table = Some("t1")
  /\ DOMAIN schema = {"t1"}

\* C7: the file handle is closed on every exit path: when parse_schema has
\* finished, by returning the mapping or by failing on the content of a
\* line, the handle is closed.
C7_HandleClosedOnEveryExit ==
  pc \in {"returned", "raised"} => schema_file = "closed"

\* C9: two calls on the same text have the same outcome, whatever calls were
\* made before and between them.  The inputs of the current call and of the
\* first call on path p are the same text when both paths name a file or
\* neither does and the lines the two calls read agree: they are the same
\* lines, or one call failed on a line that the other call read as well.
SameInput(o, p) ==
  /\ files[p].isfile = files[path].isfile
  /\ \/ o.lines = Outcome.lines
     \/ o.kind = "raised" /\ IsPrefix(o.lines, Outcome.lines)
     \/ pc = "raised" /\ IsPrefix(Outcome.lines, o.lines)

C9_ReparseSameOutcome ==
  Finished =>
    \A p \in Paths :
      (IsSome(outcomes[p]) /\ SameInput(Get(outcomes[p]), p))
        => Outcome = Get(outcomes[p])

\* A second call on a path returned a mapping with a column, after a call on
\* another path.
C9_Witness ==
  /\ pc = "returned"
  /\ IsSome(outcomes[path])
  /\ \E q \in Paths : q # path /\ IsSome(outcomes[q])
  /\ "t1" \in DOMAIN schema /\ IsSome(schema["t1"].columns)

\* C10: when the path names no file, parse_schema stops before it opens or
\* reads anything and returns no mapping: it ends by SystemExit (exit status
\* 1).  No failure on the content of a line ends that way.
C10_MissingFileExitsBeforeReading ==
  /\ (~files[path].isfile /\ pc # "start")
       => /\ pc = "exited" /\ raised = Some("SystemExit")
          /\ pos = 0 /\ text = <<>> /\ schema_file = "unopened"
  /\ pc = "exited" => ~files[path].isfile
  /\ pc = "raised" => raised # Some("SystemExit")
  /\ pc = "returned" => raised = None

C10_Witness == pc = "exited" /\ ~files[path].isfile

\* C2 as claimed: for an input of N well-formed CREATE TABLE blocks that
\* are not inside comments, the mapping returned has exactly N entries.
\* The text is well formed when its lines, comment lines and blank lines
\* aside, are blocks of a CREATE TABLE line, definition lines and a closing
\* line.
IsBlank(line) == SkipSpace(line, 1) > Len(line)

RECURSIVE WellFormedFrom(_, _)
WellFormedFrom(k, inside) ==
  IF k > pos THEN ~inside
  ELSE IF _commentLine(text[k]) \/ IsBlank(text[k])
       THEN WellFormedFrom(k + 1, inside)
  ELSE IF IsSome(_tableStart(text[k])) THEN ~inside /\ WellFormedFrom(k + 1, TRUE)
  ELSE IF _tableEnd(text[k]) THEN inside /\ WellFormedFrom(k + 1, FALSE)
  ELSE inside /\ IsSome(_columnLine(text[k])) /\ WellFormedFrom(k + 1, inside)

NumBlocks == Cardinality({k \in 1..pos : StartsTable(k)})

C2_OneEntryPerBlock ==
  (pc = "returned" /\ WellFormedFrom(1, FALSE))
    => Cardinality(DOMAIN schema) = NumBlocks

\* C2, amended: the keys of the mapping are exactly the table names of the
\* CREATE TABLE lines read that are not comment lines, so the mapping has
\* one entry per distinct name: exactly N entries for N blocks when the
\* names of the blocks are pairwise distinct.
C2_OneEntryPerDistinctName ==
  pc \in {"loop", "returned"}
    => /\ DOMAIN schema = OpenedNames
       /\ Cardinality(OpenedNames) = NumBlocks
            => Cardinality(DOMAIN schema) = NumBlocks

\* Two well-formed blocks with different names were parsed.
C2_Witness ==
  /\ pc = "returned"
  /\ text = <<CreateT1, EndPlain, CreateT2, EndEngine>>
  /\ DOMAIN schema = {"t1", "t2"}

\* C3: for every table of the mapping, the columns list is the sequence of
\* the column-definition lines of that table in source order and the
\* indexes list is the sequence of its index-definition lines in source
\* order, at every point of the parse (so no later line reorders or removes
\* an element): the names of the columns are the first identifiers of the
\* column-definition lines and the columns of the indexes are the column
\* lists of the index-definition lines.
C3_ColumnsAndIndexesInSourceOrder ==
  pc \in {"loop", "returned"} =>
    \A n \in DOMAIN schema :
      LET cols == ListOf(schema[n].columns)
          idxs == ListOf(schema[n].indexes)
          cl == ColumnLinesOf(n)
          il == IndexLinesOf(n)
      IN  /\ Len(cols) = Len(cl)
          /\ \A i \in 1..Len(cl) :
               cols[i].name = Get(_columnLine(text[cl[i]]))
          /\ Len(idxs) = Len(il)
          /\ \A i \in 1..Len(il) :
               Some(idxs[i].columns) = _retrIdxColumns(text[il[i]])

\* Table t1 holds the columns id and v, in this order, and one index, read
\* between them.
C3_Witness ==
  /\ pc = "loop"
  /\ text = <<CreateT1, ColId, IdxPrimary, ColV>>
  /\ Len(Get(schema["t1"].columns)) = 2
  /\ Get(schema["t1"].columns)[1].name = "id"
  /\ Get(schema["t1"].columns)[2].name = "v"
  /\ Len(Get(schema["t1"].indexes)) = 1

\* C4: FLOAT(0) and FLOAT both give a column of datatype float without
\* array size; a size of zero is no size.
C4_ZeroSizeIsNoSize ==
  \A n \in DOMAIN schema :
    \A i \in 1..Len(ListOf(schema[n].columns)) :
      LET c == ListOf(schema[n].columns)[i]
      IN  /\ c.name \in {"f1", "f2"} => c.datatype = "float" /\ c.arraysize = None
          /\ c.arraysize # Some(0)

\* The targets of comment lines.  Line k makes a new target when it opens a
\* table (the table) or defines a column (the column); the comment lines of
\* the target of line k are the comment lines that follow it before a line
\* opens or closes a table or defines another column.
TargetLine(k) == StartsTable(k) \/ ColumnDefinitionLine(k)

TargetChange(k) == StartsTable(k) \/ EndsTable(k) \/ ColumnDefinitionLine(k)

CommentsOf(k) ==
  Sorted({j \in (k + 1)..pos :
            /\ _commentLine(text[j])
            /\ \A i \in (k + 1)..(j - 1) : ~TargetChange(i)})

\* The description that the mapping holds for the target of line k.
DescriptionOf(k) ==
  IF StartsTable(k) THEN schema[Get(_tableStart(text[k]))].description
  ELSE LET n == Get(TableAt(k))
           i == Cardinality({c \in 1..k : ColumnDefinitionLine(c)
                                          /\ TableAt(c) = Some(n)})
       IN  Get(schema[n].columns)[i].description

HasTag(line, tag) == \E i \in 1..Len(line) : line[i] = tag

OpensDescr(line) == HasTag(line, "<descr>") /\ ~HasTag(line, "</descr>")

ClosesDescr(line) == HasTag(line, "</descr>") /\ ~HasTag(line, "<descr>")

\* The text after "--" on each of the lines cs[i], p < i < q, concatenated.
RECURSIVE MiddleText(_, _, _)
MiddleText(cs, p, q) ==
  IF p + 1 >= q THEN <<>>
  ELSE LET m == after(text[cs[p + 1]], "--")
       IN  (IF IsSome(m) THEN Get(m) ELSE <<>>) \o MiddleText(cs, p + 1, q)

\* The text after <descr> on line cs[p], the text after -- on the lines
\* between, and the text between -- and </descr> on line cs[q], without its
\* trailing white space.
ExpectedDescription(cs, p, q) ==
  Get(after(text[cs[p]], "<descr>"))
    \o MiddleText(cs, p, q)
    \o rstrip(Get(between(text[cs[q]], "--", "</descr>", 0, TRUE)).group)

\* C5: when <descr> is opened on one comment line of a target (a table or a
\* column) and </descr> appears on a later comment line of the same target,
\* the final description of the target is the text after <descr> on the
\* opening line, then the text after -- of each comment line between, then
\* the text between -- and </descr> on the closing line with its trailing
\* white space trimmed.  (Tables whose name is opened once.)
C5_MultiLineDescription ==
  pc = "returned" =>
    \A k \in 1..pos :
      (/\ TargetLine(k)
       /\ StartsTable(k) =>
            \A j \in 1..pos :
              (StartsTable(j) /\ _tableStart(text[j]) = _tableStart(text[k]))
                => j = k)
      => LET cs == CommentsOf(k)
         IN  \A p, q \in 1..Len(cs) :
               (/\ p < q
                /\ OpensDescr(text[cs[p]])
                /\ ClosesDescr(text[cs[q]])
                /\ \A i \in (p + 1)..(q - 1) :
                     ~HasTag(text[cs[i]], "</descr>")
                /\ \A i \in 1..Len(cs) :
                     i # p => ~HasTag(text[cs[i]], "<descr>"))
               => DescriptionOf(k) = Some(ExpectedDescription(cs, p, q))

\* Line `line`, read while a table is open, is a column-definition line
\* whose base type is no key of MYSQL_TYPE_MAP (and whose size, if any,
\* int() accepts).
UnknownTypeColumn(line) ==
  /\ ~(IsSome(_tableStart(line)) /\ ~_commentLine(line))
  /\ ~_tableEnd(line)
  /\ IsSome(_columnLine(line))
  /\ Get(_columnLine(line)) \notin {"PRIMARY", "KEY", "INDEX", "UNIQUE"}
  /\ _retrType(line).raises = None
  /\ LET datatype == _retrType(line).datatype
     IN  ~(Len(datatype) = 1 /\ upper(datatype[1]) \in DOMAIN MYSQL_TYPE_MAP)

TagWithoutValue(line) ==
  \/ /\ HasTag(line, "<descr>") /\ HasTag(line, "</descr>")
     /\ ~IsSome(_descrLine(line))
  \/ /\ HasTag(line, "<descr>") /\ ~HasTag(line, "</descr>")
     /\ ~IsSome(_descrStart(line))
  \/ HasTag(line, "<unit>") /\ ~IsSome(_unitLine(line))
  \/ HasTag(line, "<ucd>") /\ ~IsSome(_ucdLine(line))

\* C8: a comment line that carries a <descr>, <ucd> or <unit> tag whose
\* value cannot be extracted never aborts the parse: after it the parse
\* goes on with the next line.
C8_TagWithoutValueNeverAborts ==
  [][(ReadsLine /\ _commentLine(LineRead) /\ TagWithoutValue(LineRead))
       => pc' = "loop"]_vars

\* The column record that line k, a column-definition line, appended.
ColumnOf(k) ==
  LET n == Get(TableAt(k))
      i == Cardinality({c \in 1..k : ColumnDefinitionLine(c)
                                     /\ TableAt(c) = Some(n)})
  IN  Get(schema[n].columns)[i]

\* The positions, among the blank-separated items of a line, of the items
\* DEFAULT that another item follows.
DefaultClauses(line) ==
  {j \in 1..(Len(split(line)) - 1) : split(line)[j] = <<"DEFAULT">>}

\* C11: on a column line with a DEFAULT clause, defaultValue is the item
\* that follows the DEFAULT keyword, without its trailing comma and with
\* its quotes; on a column line without the word DEFAULT the column has no
\* defaultValue.
C11_DefaultValueIsNextToken ==
  pc \in {"loop", "returned"} =>
    \A k \in 1..pos :
      ColumnDefinitionLine(k) =>
        LET arr == split(text[k])
            ks == DefaultClauses(text[k])
        IN  /\ ks # {} =>
                 ColumnOf(k).defaultValue
                   = Some(rstripComma(arr[MinOf(ks) + 1]))
            /\ (\A j \in 1..Len(arr) : arr[j] # <<"DEFAULT">>) =>
                 ColumnOf(k).defaultValue = None

\* An index-definition line, from its text: <identifier> <word> with one of
\* the four index keywords as the identifier, and a parenthesized column
\* list.
IndexLineWithColumns(line) ==
  /\ ~(IsSome(_tableStart(line)) /\ ~_commentLine(line))
  /\ ~_tableEnd(line)
  /\ IsSome(_columnLine(line))
  /\ Get(_columnLine(line)) \in {"PRIMARY", "KEY", "INDEX", "UNIQUE"}
  /\ \E i, j \in 1..Len(line) :
       i + 1 < j /\ line[i] = "(" /\ line[j] = ")"

ExpectedIndexType(first) ==
  CASE first = "PRIMARY" -> <<"PRIMARY", " ", "KEY">>
    [] first = "UNIQUE" -> <<"UNIQUE">>
    [] first \in {"KEY", "INDEX"} -> <<"-">>

ExpectedIndexColumns(line) ==
  CASE line = IdxPrimary -> <<"id">>
    [] line = IdxIndex -> <<"s">>
    [] line = IdxUnique -> <<"xx", ",", " ", "yy">>
    [] line = IdxKey -> <<"ra", ",", " ", "decl">>
    [] line = IdxSpaced -> <<"a", ",", " ", "b">>

CountOf(s, t) == Cardinality({i \in 1..Len(s) : s[i] = t})

\* C13: the columns value of every index record is the parenthesized
\* column list of its index line, split on commas, every ASC and DESC
\* qualifier removed from each expression, joined with ", " in source
\* order: UNIQUE UQ_x(xx DESC, yy) gives "xx, yy", PRIMARY KEY pk_t1_id (id)
\* gives "id".  It holds no ASC, no DESC and no parenthesis, and as many
\* commas, each followed by one blank, as the column list has.
C13_IndexColumnsCleanedAndJoined ==
  pc \in {"loop", "returned"} =>
    \A n \in DOMAIN schema :
      LET idxs == ListOf(schema[n].indexes)
          il == IndexLinesOf(n)
      IN  /\ Len(idxs) = Len(il)
          /\ \A i \in 1..Len(il) :
               LET line == text[il[i]]
                   cols == idxs[i].columns
                   list == Get(between(line, "(", ")", 1, FALSE)).group
               IN  /\ cols = ExpectedIndexColumns(line)
                   /\ \A j \in 1..Len(cols) :
                        /\ cols[j] \notin {"ASC", "DESC", "(", ")"}
                        /\ cols[j] = "," => (j < Len(cols) /\ cols[j + 1] = " ")
                   /\ CountOf(cols, ",") = CountOf(list, ",")

\* The index of UNIQUE UQ_x(xx DESC, yy) was recorded after another index.
C13_Witness ==
  /\ pc = "returned"
  /\ text = <<CreateT1, IdxKey, IdxUnique>>
  /\ Get(schema["t1"].indexes)[2].columns = <<"xx", ",", " ", "yy">>
  /\ Get(schema["t1"].indexes)[1].columns = <<"ra", ",", " ", "decl">>

\* A closing line, from its text: it starts with ")" and opens no table.
ClosingLine(line) ==
  /\ ~(IsSome(_tableStart(line)) /\ ~_commentLine(line))
  /\ Len(line) >= 1 /\ line[1] = ")"

\* C14: while a table is open, a closing line with an ENGINE= or TYPE=
\* clause records the value of the clause as the engine of the current
\* table and of no other table, and the parser is outside any table
\* afterwards; a closing line without such a clause closes the table and
\* leaves its entry, so its engine, as it was.
C14_ClosingLineRecordsEngine ==
  [][(ReadsLine /\ IsSome(table) /\ ClosingLine(LineRead))
       => LET t == Get(table)
              m == _engineLine(LineRead)
          IN  /\ pc' = "loop"
              /\ table' = None
              /\ DOMAIN schema' = DOMAIN schema
              /\ \A n \in DOMAIN schema : n # t => schema'[n] = schema[n]
              /\ IF IsSome(m)
                 THEN schema'[t] = [schema[t] EXCEPT !.engine = Some(<<Get(m)>>)]
                 ELSE schema'[t] = schema[t]]_vars

\* t1 was closed without a clause and t2 with TYPE = InnoDB: only t2 has an
\* engine, and no table is open.
C14_Witness ==
  /\ pc = "loop"
  /\ text = <<CreateT1, EndPlain, CreateT2, EndType>>
  /\ table = None
  /\ schema["t1"].engine = None
  /\ schema["t2"].engine = Some(<<"InnoDB">>)

\* A line of no recognized shape, from its text: it opens no table, does
\* not start with ")", is not <identifier> <word> ... and is no comment line.
Unrecognized(line) ==
  /\ ~(IsSome(_tableStart(line)) /\ ~_commentLine(line))
  /\ ~(Len(line) >= 1 /\ line[1] = ")")
  /\ ~IsSome(_columnLine(line))
  /\ ~_commentLine(line)

\* C15: while a table is open, a line that is none of table start, table
\* end, column, index or comment is ignored: the mapping, the current
\* table, the current column and the description-capture flag are
\* unchanged and the parse does not fail.
C15_UnrecognizedLineIgnored ==
  [][(ReadsLine /\ IsSome(table) /\ Unrecognized(LineRead))
       => /\ pc' = "loop"
          /\ UNCHANGED <<schema, table, column, column_description>>]_vars

\* A blank line was read while a description of column id was being
\* captured: the column and the flag are still set.
C15_Witness ==
  /\ pc = "loop"
  /\ text = <<CreateT1, ColId, DescrOpen, Blank>>
  /\ table = Some("t1")
  /\ column = Some([table |-> "t1", index |-> 1])
  /\ column_description = Some(1)

\* The call run alone on the lines ls: the loop of lines 117-196 from the
\* state s, up to the first line that raises.
RECURSIVE RunAlone(_, _)
RunAlone(s, ls) ==
  IF ls = <<>> \/ IsSome(s.raised) THEN s
  ELSE RunAlone(ProcessLine(s, Head(ls)), Tail(ls))

\* What the call of frame f has done is what a call run alone does on the
\* lines that f has read: it returned the mapping, or failed with the
\* exception, that the call alone returns or fails with, and while it runs
\* its variables are those of the call alone.
AsRunAlone(f) ==
  LET lines == SubSeq(files[f.path].text, 1, f.pos)
      alone == RunAlone(InitialLocals, lines)
  IN  /\ f.pc = "returned" =>
           /\ alone.raised = None
           /\ f.schema = alone.schema
           /\ f.pos = Len(files[f.path].text)
      /\ f.pc = "raised" => f.raised = alone.raised /\ IsSome(alone.raised)
      /\ f.pc = "loop" =>
           /\ alone.raised = None
           /\ f.schema = alone.schema
           /\ f.table = alone.table
           /\ f.column = alone.column
           /\ f.column_description = alone.column_description
      /\ f.pc = "exited" => ~files[f.path].isfile /\ f.pos = 0

\* C16: two parses that run at the same time on independent inputs do not
\* interfere: in every interleaving of their steps each call returns the
\* mapping (or fails with the exception) that it returns when it runs
\* alone on its input.
C16_ConcurrentCallsAsAlone ==
  /\ AsRunAlone(Frame)
  /\ IsSome(others) => AsRunAlone(Get(others))

\* Both calls are in their loops at the same time: the call on path 1 is
\* capturing the description of a column, the call on path 2 has opened a
\* table and captures nothing.
C16_Witness ==
  /\ IsSome(others)
  /\ path = 1 /\ pc = "loop" /\ pos = 3
  /\ files[1].text = <<CreateT1, ColId, DescrOpen>>
  /\ column_description = Some(1)
  /\ Get(others).path = 2 /\ Get(others).pc = "loop" /\ Get(others).pos = 1
  /\ files[2].text = <<CreateT1>>
  /\ Get(others).column_description = None
  /\ Get(others).table = Some("t1") /\ Get(others).column = None

\* The raw type token of a column line (its second blank-separated item,
\* without trailing commas) and the base type name in it.
TypeToken(line) == rstripComma(split(line)[2])

RawBase(line) == TypeToken(line)[1]

\* The canonical type of a raw base type name as the claim gives it, for
\* the spellings of the inputs.
ClaimedCanonical(raw) ==
  CASE raw \in {"VARCHAR", "varchar", "CHAR", "char"} -> "text"
    [] raw \in {"TIMESTAMP", "timestamp"} -> "timestamp"
    [] raw \in {"BINARY", "binary"} -> "binary"
    [] raw \in {"TINYINT", "tinyint"} -> "short"
    [] raw \in {"BIGINT", "bigint"} -> "long"
    [] raw \in {"BIT", "bit"} -> "boolean"
    [] raw \in {"FLOAT", "float"} -> "float"
    [] raw \in {"INT", "int", "Int", "INTEGER", "integer"} -> "int"
    [] raw \in {"DOUBLE", "double"} -> "double"
    [] OTHER -> "none"

\* A column-definition line, from its text, whose type token is a base type
\* name of the claim, alone or with one number in parentheses.
KnownTypeColumn(line) ==
  /\ ~(IsSome(_tableStart(line)) /\ ~_commentLine(line))
  /\ ~(Len(line) >= 1 /\ line[1] = ")")
  /\ IsSome(_columnLine(line))
  /\ Get(_columnLine(line)) \notin {"PRIMARY", "KEY", "INDEX", "UNIQUE"}
  /\ ClaimedCanonical(RawBase(line)) # "none"
  /\ \/ Len(TypeToken(line)) = 1
     \/ /\ Len(TypeToken(line)) = 4
        /\ TypeToken(line)[2] = "(" /\ IsNumber(TypeToken(line)[3])
        /\ TypeToken(line)[4] = ")"

\* C17: the canonical datatype of a column is determined by the raw base
\* type name, whatever its case: VARCHAR and CHAR give text, TIMESTAMP gives
\* timestamp, BINARY binary, TINYINT short, BIGINT long, BIT boolean, FLOAT
\* float, INT and INTEGER int, DOUBLE double; a size in parentheses or a
\* trailing comma on the type token does not change it.  Such a line, read
\* inside a table, appends a column of that datatype.
C17_CanonicalTypeFromBaseName ==
  [][(ReadsLine /\ IsSome(table) /\ KnownTypeColumn(LineRead))
       => /\ pc' = "loop"
          /\ LET now == ListOf(schema'[Get(table)].columns)
             IN  /\ Len(now) = Len(ListOf(schema[Get(table)].columns)) + 1
                 /\ now[Len(now)].datatype
                      = ClaimedCanonical(RawBase(LineRead))]_vars

\* tinyint(1), with a size and in lower case, gave short; Int gave int.
C17_Witness ==
  /\ pc = "loop"
  /\ text = <<CreateT1, ColTi, ColI3>>
  /\ Get(schema["t1"].columns)[1].datatype = "short"
  /\ Get(schema["t1"].columns)[2].datatype = "int"

\* C18: for every column of the mapping, arraysize is None unless the raw
\* type token carried a parenthesized parameter and the canonical type is
\* not boolean: a boolean column (raw BIT) has arraysize None even when
\* the line gave a size, and a column that is not boolean with TYPE(n),
\* n > 0, has arraysize n.
C18_ArraysizeOnlyFromExplicitSize ==
  pc \in {"loop", "returned"} =>
    \A k \in 1..pos :
      ColumnDefinitionLine(k) =>
        LET c == ColumnOf(k)
            token == TypeToken(text[k])
            hasParameter == \E i \in 1..Len(token) : token[i] = "("
        IN  /\ (~hasParameter \/ c.datatype = "boolean")
                 => c.arraysize = None
            /\ (/\ hasParameter /\ c.datatype # "boolean"
                /\ Len(token) = 4 /\ IsNumber(token[3]) /\ int(token[3]) > 0)
                 => c.arraysize = Some(int(token[3]))

\* BIT(8) gave a boolean column without array size and varchar(255) a
\* column of array size 255.
C18_Witness ==
  /\ pc = "returned"
  /\ text = <<CreateT1, ColBit, ColV>>
  /\ Get(schema["t1"].columns)[1].datatype = "boolean"
  /\ Get(schema["t1"].columns)[1].arraysize = None
  /\ Get(schema["t1"].columns)[2].arraysize = Some(255)

\* The lines read so far that open a table named n.
BlocksNamed(n) ==
  {k \in 1..pos : StartsTable(k) /\ _tableStart(text[k]) = Some(n)}

\* C19: when the same table name is on more than one CREATE TABLE line
\* that is no comment line, the mapping holds one entry for the name: the
\* later CREATE TABLE line leaves the mapping as it is and makes that entry
\* the current table, and the entry holds the columns and the indexes of
\* all the blocks of that name, in source order.
C19_DuplicateNamesShareOneEntry ==
  /\ [](pc \in {"loop", "returned"} =>
          \A n \in OpenedNames :
            Cardinality(BlocksNamed(n)) > 1 =>
              /\ n \in DOMAIN schema
              /\ LET cols == ListOf(schema[n].columns)
                     cl == ColumnLinesOf(n)
                 IN  /\ Len(cols) = Len(cl)
                     /\ \A i \in 1..Len(cl) :
                          cols[i].name = Get(_columnLine(text[cl[i]]))
              /\ Len(ListOf(schema[n].indexes)) = Len(IndexLinesOf(n)))
  /\ [][(/\ ReadsLine
          /\ IsSome(_tableStart(LineRead)) /\ ~_commentLine(LineRead)
          /\ Get(_tableStart(LineRead)) \in DOMAIN schema)
         => /\ pc' = "loop"
            /\ schema' = schema
            /\ table' = _tableStart(LineRead)]_vars

\* Two blocks named t1, the first closed: the entry t1 holds the column of
\* the first block and then the column of the second.
C19_Witness ==
  /\ pc = "loop"
  /\ text = <<CreateT1, ColId, EndPlain, CreateT1, ColV>>
  /\ DOMAIN schema = {"t1"}
  /\ Len(Get(schema["t1"].columns)) = 2
  /\ Get(schema["t1"].columns)[1].name = "id"
  /\ Get(schema["t1"].columns)[2].name = "v"

\* The tag markers.
TagMarkers ==
  {"<descr>", "</descr>", "<ucd>", "</ucd>", "<unit>", "</unit>"}

\* C20: the description of a column, whenever present, holds no tag
\* marker: no column description of the mapping contains <descr>,
\* </descr>, <ucd>, </ucd>, <unit> or </unit>, also when a comment line
\* continues a description of several lines and carries a <unit> or <ucd>
\* tag.
C20_NoTagMarkersInColumnDescription ==
  \A n \in DOMAIN schema :
    \A i \in 1..Len(ListOf(schema[n].columns)) :
      LET d == ListOf(schema[n].columns)[i].description
      IN  IsSome(d) => \A j \in 1..Len(Get(d)) : Get(d)[j] \notin TagMarkers

(***************************************************************************)
(* The target of the next comment line, from the lines read so far.        *)
(***************************************************************************)
\* The line that opened the table that is open after the lines read so far.
OpenBlockStart == MaxOf({j \in 1..pos : StartsTable(j)})

\* The column-definition lines of the open table since that line.
ColumnsOfOpenBlock ==
  {j \in (OpenBlockStart + 1)..pos : ColumnDefinitionLine(j)}

\* A table is open and no column line of it has been read yet: a comment
\* line is one of the table.
InTableHead == IsSome(TableAt(pos + 1)) /\ ColumnsOfOpenBlock = {}

\* A table is open and a column line of it has been read: a comment line is
\* one of that column.
InColumn == IsSome(TableAt(pos + 1)) /\ ColumnsOfOpenBlock # {}

\* The last line that opened the table or defined a column of it.
CurrentTarget ==
  IF ColumnsOfOpenBlock = {} THEN OpenBlockStart ELSE MaxOf(ColumnsOfOpenBlock)

\* The comment lines of the current target, so far, that hold <descr>.
DescrLinesOfTarget ==
  {j \in (CurrentTarget + 1)..pos :
     _commentLine(text[j]) /\ HasTag(text[j], "<descr>")}

\* A comment line with <descr>, some text and </descr>.
FullDescrLine(line) ==
  /\ _commentLine(line)
  /\ IsSome(between(line, "<descr>", "</descr>", 1, TRUE))

\* The column record that comment lines are attached to.
CurrentColumn ==
  LET cols == Get(schema[Get(TableAt(pos + 1))].columns)
  IN  cols[Len(cols)]

\* The same record after the step.
CurrentColumnAfter ==
  LET cols == Get(schema'[Get(TableAt(pos + 1))].columns)
  IN  cols[Len(cols)]

\* C21: once the description of a table has been completed by one comment
\* line that holds both <descr> and </descr>, a later comment line of that
\* table without <descr>, read before the first column line, does not
\* change the description of the table.
C21_TableDescriptionFinalAfterFullLine ==
  [][(/\ ReadsLine
      /\ InTableHead
      /\ DescrLinesOfTarget # {}
      /\ FullDescrLine(text[MaxOf(DescrLinesOfTarget)])
      /\ _commentLine(LineRead)
      /\ ~HasTag(LineRead, "<descr>"))
       => /\ pc' = "loop"
          /\ schema'[Get(TableAt(pos + 1))].description
               = schema[Get(TableAt(pos + 1))].description]_vars

\* C22: a comment line of the current column that holds both <descr> and
\* </descr> makes the text between them the description of the column, and
\* that description is final: after such a line, whatever lines came before
\* it, a comment line of the column without <descr> leaves the description
\* unchanged.
C22_ColumnDescriptionFinalAfterFullLine ==
  [][/\ (ReadsLine /\ InColumn /\ FullDescrLine(LineRead))
          => /\ pc' = "loop"
             /\ CurrentColumnAfter.description
                  = Some(Get(between(LineRead, "<descr>", "</descr>", 1, TRUE)).group)
     /\ (/\ ReadsLine
         /\ InColumn
         /\ DescrLinesOfTarget # {}
         /\ FullDescrLine(text[MaxOf(DescrLinesOfTarget)])
         /\ _commentLine(LineRead)
         /\ ~HasTag(LineRead, "<descr>"))
          => /\ pc' = "loop"
             /\ CurrentColumnAfter.description = CurrentColumn.description]_vars

\* C23: description capture is per target: when no comment line of the
\* current column holds <descr> (whatever was opened and left open on an
\* earlier column), a comment line without <descr> leaves the description
\* of the column absent, and the parse goes on.
C23_CapturePerTarget ==
  [][(/\ ReadsLine
      /\ InColumn
      /\ DescrLinesOfTarget = {}
      /\ _commentLine(LineRead)
      /\ ~HasTag(LineRead, "<descr>"))
       => /\ pc' = "loop"
          /\ CurrentColumnAfter.description = None]_vars

\* C24: the comment lines of a table and those of its columns are apart.
\* Between a CREATE TABLE line and the first column line of the table a
\* comment line can change only the description of the table; from the
\* first column line until the table closes a comment line does not change
\* the description of the table and can change only the column opened last.
C24_TableAndColumnCommentsApart ==
  [][(ReadsLine /\ IsSome(TableAt(pos + 1)) /\ _commentLine(LineRead))
       => LET t == Get(TableAt(pos + 1))
          IN  /\ DOMAIN schema' = DOMAIN schema
              /\ \A n \in DOMAIN schema : n # t => schema'[n] = schema[n]
              /\ IF InTableHead
                 THEN schema'[t] = [schema[t] EXCEPT
                                      !.description = schema'[t].description]
                 ELSE /\ schema'[t] = [schema[t] EXCEPT
                                         !.columns = schema'[t].columns]
                      /\ LET before == Get(schema[t].columns)
                             now == Get(schema'[t].columns)
                         IN  /\ Len(now) = Len(before)
                             /\ \A i \in 1..(Len(now) - 1) :
                                  now[i] = before[i]]_vars

\* A comment line set the description of table t1, and after the column
\* line the same comment line set the description of the column and left
\* the one of the table.
C24_Witness ==
  /\ pc = "loop"
  /\ pos = 4
  /\ text = <<CreateT1, DescrOpen, ColId, DescrFull>>
  /\ schema["t1"].description = Some(<<"This", " ", "is">>)
  /\ Get(schema["t1"].columns)[1].description
       = Some(<<"the", " ", "t1", ".", "id">>)

TagText(line, open, close) ==
  LET m == between(line, open, close, 1, TRUE)
  IN  IF IsSome(m) THEN Some(Get(m).group) ELSE None

\* C26: every comment line of the current column that holds <ucd>X</ucd>
\* sets the ucd of the column to X, and every one that holds
\* <unit>Y</unit> sets its unit to Y, whether or not a description is being
\* captured and whatever the line does to the description; a comment line
\* of the table (no column line of it read yet) sets no ucd and no unit.
C26_UnitAndUcdOnEveryColumnComment ==
  [][/\ (ReadsLine /\ InColumn /\ _commentLine(LineRead)
           /\ IsSome(TagText(LineRead, "<unit>", "</unit>")))
          => /\ pc' = "loop"
             /\ CurrentColumnAfter.unit
                  = Some(Get(TagText(LineRead, "<unit>", "</unit>")))
     /\ (ReadsLine /\ InColumn /\ _commentLine(LineRead)
           /\ IsSome(TagText(LineRead, "<ucd>", "</ucd>")))
          => /\ pc' = "loop"
             /\ CurrentColumnAfter.ucd
                  = Some(Get(TagText(LineRead, "<ucd>", "</ucd>")))
     /\ (ReadsLine /\ InTableHead /\ _commentLine(LineRead))
          => schema'[Get(TableAt(pos + 1))].columns
               = schema[Get(TableAt(pos + 1))].columns]_vars

\* C27, as claimed: a table is added to the mapping when its closing line
\* is processed; a table of the mapping is one whose closing line has been
\* read.
C27_NoEntryBeforeClosingLine ==
  \A n \in DOMAIN schema :
    \E k \in 1..pos : EndsTable(k) /\ TableAt(k) = Some(n)

\* C27, amended: a table is added to the mapping when its CREATE TABLE line
\* is processed.  While a table is open, and when the input ends while it
\* is open, the mapping has an entry for it that holds the columns read so
\* far.
C27_EntryFromCreateTableLine ==
  (pc \in {"loop", "returned"} /\ IsSome(TableAt(pos + 1)))
    => LET n == Get(TableAt(pos + 1))
       IN  /\ n \in DOMAIN schema
           /\ Len(ListOf(schema[n].columns)) = Len(ColumnLinesOf(n))

\* The input ended after a column line of table t1, without a closing
\* line: the mapping returned holds t1 and its column.
C27_Witness ==
  /\ pc = "returned"
  /\ text = <<CreateT1, ColId>>
  /\ DOMAIN schema = {"t1"}
  /\ Get(schema["t1"].columns)[1].name = "id"

\* C28: while no table is open, a line that is not a CREATE TABLE line
\* (one without the comment marker) leaves the mapping unchanged and does
\* not end the parse: a comment line, a line like a column or an index
\* line, a closing line with or without an ENGINE= or TYPE= clause.
C28_OutsideTableLinesIgnored ==
  [][(/\ ReadsLine
      /\ TableAt(pos + 1) = None
      /\ ~(IsSome(_tableStart(LineRead)) /\ ~_commentLine(LineRead)))
       => /\ pc' = "loop"
          /\ schema' = schema]_vars

\* C29: every table of the mapping returned has a columns sequence, the
\* empty one when the table has no column line, so that table["columns"]
\* can be read for every table.
C29_EveryTableHasColumns ==
  pc = "returned" =>
    \A n \in DOMAIN schema : IsSome(schema[n].columns)

\* A step of a single forward pass: the position stays or moves one line
\* ahead, and only the loop moves it; the lines already read stay as they
\* were read; the call returns only when every line of the file has been
\* read; a finished call takes no further step.
PassStep ==
  /\ ~Finished
  /\ pos' \in {pos, pos + 1}
  /\ pos' = pos + 1 => pc = "loop" /\ pc' \in {"loop", "raised"}
  /\ SubSeq(files'[path].text, 1, pos) = SubSeq(text, 1, pos)
  /\ pc' = "returned" =>
       /\ pc = "loop"
       /\ pos' = Len(files'[path].text)
       /\ files'[path].eof

\* C30: parse_schema is a single forward pass that always finishes: on a
\* file of finitely many lines each line is processed once, in source
\* order, without going back, and after the last line, or at the first
\* line that fails, the call is finished: it has returned the mapping or
\* ended with an error.
C30_SinglePassAlwaysFinishes ==
  /\ <>Finished
  /\ [][PassStep]_vars

\* The call returned after it read the four lines of a file.
C30_Witness ==
  /\ pc = "returned"
  /\ pos = 4
  /\ text = <<CreateT1, ColId, IdxPrimary, EndEngine>>
  /\ schema["t1"].engine = Some(<<"MyISAM">>)

====
